---- MODULE Spec2Model ----
(***************************************************************************)
(* Execute/poll protocol of the Composer Airflow-command helpers.          *)
(*                                                                         *)
(* Three copies of the protocol exist in the repository:                   *)
(*   "composer_api"     trigger_dag_run            (src/composer_api.py)   *)
(*   "check_dag_status" _exec_/_poll_airflow_command                       *)
(*                                            (src/check_dag_status.py)    *)
(*   "list_dag_runs"    _execute_/_poll_airflow_command                    *)
(*                                               (src/list_dag_runs.py)    *)
(* One call is modelled: the submit request, its response, and the poll    *)
(* loop with its wall clock.  The backend is the environment: it chooses   *)
(* every response (status, body, delay).                                   *)
(*                                                                         *)
(* Python values: None is <<>>, a present value v is <<v>> (Some(v)); a    *)
(* dict is a function whose DOMAIN is its set of keys.                     *)
(***************************************************************************)
EXTENDS Integers, Sequences, FiniteSets, TLC

VARIABLES
    op,                 \* the public operation that was called
    submits,            \* submit requests sent so far (payloads)
    variant,            \* which copy of the protocol is running
    poll,               \* trigger_dag_run's poll flag
    timeout_sec,        \* timeout budget of the poll loop
    poll_interval_sec,  \* sleep between two fetches
    pc,                 \* position of the call
    now,                \* wall clock, time.time()
    start,              \* time.time() taken before the loop
    handle,             \* (execution_id, pod, pod_namespace) or NoHandle
    execute_error,      \* data.get("error", "") of trigger_dag_run
    next_line,          \* the cursor
    logs,               \* contents appended so far
    lognums,            \* line number of each element of logs (history)
    exit_code,
    last_error,
    result,             \* value returned to the caller, or NoResult
    outcome,            \* how the call ended
    submitResp,         \* the submit response received (history)
    requests,           \* bodies of the poll requests sent (history)
    received,           \* lines received, in order of receipt (history)
    xpc,                \* position of an extraction call: "start", "returned", "raised"
    xop,                \* the operation whose extraction runs
    out,                \* the poll result the extraction reads: logs, exit_code
    run_id,             \* the run_id argument of get_dag_run_state_by_run_id
    ret,                \* the value the operation returns
    cnow,               \* wall clock seen by the interleaved sessions
    spc,                \* position of each session
    sstart,             \* start of each call frame
    snext_line,         \* next_line of each call frame
    slogs,              \* logs of each call frame
    shistory,           \* requests sent and responses received by each session (history)
    sresult,            \* value returned by each session, or NoResult
    lastResp            \* the last poll response received (history)

vars == <<op, submits, variant, poll, timeout_sec, poll_interval_sec, pc, now, start,
          handle, execute_error, next_line, logs, lognums, exit_code,
          last_error, result, outcome, submitResp, requests, received,
          lastResp, xpc, xop, out, run_id, ret, cnow, spc, sstart, snext_line,
          slogs, shistory, sresult>>

\* the variables of the interleaved sessions
cvars == <<cnow, spc, sstart, snext_line, slogs, shistory, sresult>>

\* the variables of an extraction call
xvars == <<xpc, xop, out, run_id, ret>>

\* the variables of the execute/poll protocol
pvars == <<op, submits, variant, poll, timeout_sec, poll_interval_sec, pc, now,
           start, handle, execute_error, next_line, logs, lognums, exit_code,
           last_error, result, outcome, submitResp, requests, received, lastResp>>

----------------------------------------------------------------------------
(* Bounds of the model *)

\* line numbers are 0..MaxLine
MaxLine == 1
\* lines in one poll response
MaxBatch == 2
\* lines received in one session
MaxLogs == 2

Variants == {"composer_api", "check_dag_status", "list_dag_runs"}
\* timeout budgets, in units of the sleep
Timeouts == {1, 2}
\* sleeps between two fetches
Intervals == {1}
\* time a fetch takes
Delays == {0, 1}
Statuses == {200, 400, 503}
ExecIds == {"e1", "e2"}
Pods == {"p1"}
Namespaces == {"n1"}
HandleKeys == {"executionId", "pod", "podNamespace"}

\* two polling sessions run interleaved, each for its own handle
Sessions == {1, 2}

\* the public operations that run the execute/poll protocol
Ops == {"trigger_dag_run", "get_dag_run_state_by_logical_date",
        "get_dag_run_state_by_run_id", "list_dag_runs"}

\* the file, hence the copy of the protocol, an operation lives in
VariantOf(o) ==
    CASE o = "trigger_dag_run" -> "composer_api"
      [] o = "list_dag_runs" -> "list_dag_runs"
      [] OTHER -> "check_dag_status"

\* command and subcommand of the executeAirflowCommand payload
SubmitPayload(o) ==
    [command |-> "dags",
     subcommand |-> CASE o = "trigger_dag_run" -> "trigger"
                      [] o = "get_dag_run_state_by_logical_date" -> "state"
                      [] OTHER -> "list-runs"]

----------------------------------------------------------------------------
(* Python values *)

None == <<>>
Some(v) == <<v>>

\* dict.get(key) with the default None
Get(d, k) == IF k \in DOMAIN d THEN d[k] ELSE None

NoHandle == [kind |-> "none"]
NoResult == [kind |-> "none"]
NoResp == [kind |-> "none"]

RECURSIVE SeqsUpTo(_, _)
SeqsUpTo(S, n) ==
    IF n = 0 THEN {<<>>}
    ELSE LET shorter == SeqsUpTo(S, n - 1)
         IN shorter \cup {Append(s, x) : s \in {t \in shorter : Len(t) = n - 1}, x \in S}

----------------------------------------------------------------------------
(* The backend's responses *)

\* the command's log on the backend is append-only: a line number always
\* carries the same content, and distinct lines may carry equal contents
LogText(n) == IF n % 2 = 0 THEN "a" ELSE "b"

Lines == {[lineNumber |-> n, content |-> LogText(n)] : n \in 0..MaxLine}

\* exitInfo of a poll response: key absent, null, or a dict with any of its keys
ExitInfoDicts ==
    { [k \in {} |-> None],
      [k \in {"exitCode"} |-> Some(0)],
      [k \in {"exitCode", "error"} |-> IF k = "exitCode" THEN Some(1) ELSE Some("boom")] }

ExitInfos == {[present |-> FALSE, value |-> None],
              [present |-> TRUE, value |-> None]}
             \cup {[present |-> TRUE, value |-> Some(d)] : d \in ExitInfoDicts}

\* outputEnd of a poll response: key absent, false or true
OutputEnds == {[present |-> FALSE, value |-> FALSE],
               [present |-> TRUE, value |-> FALSE],
               [present |-> TRUE, value |-> TRUE]}

\* what a poll response carries besides its output; exitInfo accompanies the
\* response that ends the output
Endings ==
    UNION { { [outputEnd |-> e, exitInfo |-> x] :
                x \in IF e.value THEN ExitInfos ELSE {[present |-> FALSE, value |-> None]} } :
            e \in OutputEnds }

\* the outputs of at most n lines, tabulated by n
OutputsByRoom == [n \in 0..MaxBatch |-> SeqsUpTo(Lines, n)]

Min(a, b) == IF a < b THEN a ELSE b

\* the JSON body of an error response is a dict with none of the keys the
\* loop reads
ErrorEnding ==
    [outputEnd |-> [present |-> FALSE, value |-> FALSE],
     exitInfo |-> [present |-> FALSE, value |-> None]]

\* the backend answers with an error status
IsErrorStatus(status) == status >= 400

\* body of a submit response: a dict with any subset of the handle keys and
\* possibly "error"
SubmitBodies ==
    { [k \in ks |-> CASE k = "executionId" -> e
                      [] k = "pod" -> p
                      [] k = "podNamespace" -> n
                      [] OTHER -> "boom"] :
        ks \in {s \cup x : s \in SUBSET HandleKeys, x \in {{}, {"error"}}},
        e \in ExecIds, p \in Pods, n \in Namespaces }

----------------------------------------------------------------------------
(* Helpers of the code *)

\* mutant: only a 5xx status raises
RaiseForStatus_serverOnly(status) == status >= 500 /\ status < 600

\* Response.raise_for_status(): HTTPError for a 4xx or 5xx status
RaiseForStatus(status) == status >= 400 /\ status < 600

\* mutant: the comparison is strict
PostOrRaise_offByOne(status) == status > 400

\* _post_or_raise of list_dag_runs.py: RuntimeError when status_code >= 400
PostOrRaise(status) == status >= 400

\* does the submit request of this copy raise on this status
SubmitRaises(v, status) ==
    IF v = "list_dag_runs" THEN PostOrRaise(status) ELSE RaiseForStatus(status)

\* j["executionId"], j["pod"], j["podNamespace"]: KeyError when a key is missing
HasHandleFields(body) == HandleKeys \subseteq DOMAIN body

HandleOf(body) ==
    [kind |-> "handle",
     execution_id |-> body["executionId"],
     pod |-> body["pod"],
     pod_namespace |-> body["podNamespace"]]

\* data.get("error", "")
ExecuteErrorOf(body) == IF "error" \in DOMAIN body THEN body["error"] ELSE ""

\* mutant: every copy starts at 1
InitialNextLine_positive(v) == 1

\* the value next_line is initialised to
InitialNextLine(v) == IF v = "list_dag_runs" THEN 1 ELSE 0

\* mutant: the budget itself already counts as elapsed
TimedOut_atBudget(t, s, budget) == t - s >= budget

\* time.time() - start > timeout_sec
TimedOut(t, s, budget) == t - s > budget

TimeoutMessage(v, budget) ==
    IF v = "composer_api"
    THEN "Timeout after " \o ToString(budget) \o "s while waiting for Airflow CLI to finish."
    ELSE "Timeout after " \o ToString(budget) \o "s waiting for CLI to finish."

\* mutant: pod and podNamespace are swapped
PollBody_swapped(h, n) ==
    [executionId |-> h.execution_id,
     pod |-> h.pod_namespace,
     podNamespace |-> h.pod,
     nextLineNumber |-> n]

\* body of a poll request
PollBody(h, n) ==
    [executionId |-> h.execution_id,
     pod |-> h.pod,
     podNamespace |-> h.pod_namespace,
     nextLineNumber |-> n]

\* mutant: the first line of every batch is dropped
AppendContents_dropFirst(lg, output) ==
    lg \o [i \in 1..(Len(output) - 1) |-> output[i + 1].content]

\* for line in output: logs.append(line["content"])
AppendContents(lg, output) == lg \o [i \in 1..Len(output) |-> output[i].content]

\* for line in output: next_line = line["lineNumber"] + 1
AdvanceCursor(n, output) ==
    IF output = <<>> THEN n ELSE output[Len(output)].lineNumber + 1

\* mutant: pj.get("outputEnd", True)
OutputEnd_absentMeansEnd(resp) == IF resp.outputEnd.present THEN resp.outputEnd.value ELSE TRUE

\* pj.get("outputEnd", False)
OutputEnd(resp) == IF resp.outputEnd.present THEN resp.outputEnd.value ELSE FALSE

EmptyDict == [k \in {} |-> None]

\* pj.get("exitInfo", {}) or {}
ExitInfoOf(resp) ==
    IF resp.exitInfo.present /\ resp.exitInfo.value # None
       /\ DOMAIN resp.exitInfo.value[1] # {}
    THEN resp.exitInfo.value[1]
    ELSE EmptyDict

\* mutant: exit_info.get("exitCode", 0)
ExitCodeOf_defaultZero(resp) ==
    IF "exitCode" \in DOMAIN ExitInfoOf(resp) THEN ExitInfoOf(resp)["exitCode"] ELSE Some(0)

\* exit_info.get("exitCode")
ExitCodeOf(resp) == Get(ExitInfoOf(resp), "exitCode")

\* exit_info.get("error")
ExitErrorOf(resp) == Get(ExitInfoOf(resp), "error")

\* the dict a poll loop hands back
PollResult(v, h, xe, lg, code, err, info) ==
    CASE v = "check_dag_status" ->
           [kind |-> "check_dag_status", logs |-> lg, exit_code |-> code, error |-> err]
      [] v = "composer_api" ->
           [kind |-> "composer_api", execution_id |-> h.execution_id, pod |-> h.pod,
            pod_namespace |-> h.pod_namespace, execute_error |-> xe,
            exit_code |-> code, exit_error |-> err, logs |-> lg]
      [] OTHER ->
           [kind |-> "list_dag_runs", logs |-> lg, exitInfo |-> info]

\* mutant: the early return also carries an empty logs list
UnpolledResult_withLogs(h, xe) ==
    [kind |-> "unpolled", execution_id |-> h.execution_id, pod |-> h.pod,
     pod_namespace |-> h.pod_namespace, execute_error |-> xe, logs |-> <<>>]

\* trigger_dag_run(poll=False)
UnpolledResult(h, xe) ==
    [kind |-> "unpolled", execution_id |-> h.execution_id, pod |-> h.pod,
     pod_namespace |-> h.pod_namespace, execute_error |-> xe]

----------------------------------------------------------------------------
(* The call *)

Init ==
    /\ op = "trigger_dag_run"
    /\ submits = <<>>
    /\ variant = "composer_api"
    /\ poll = TRUE
    /\ timeout_sec = 1
    /\ poll_interval_sec = 1
    /\ pc = "idle"
    /\ now = 0
    /\ start = 0
    /\ handle = NoHandle
    /\ execute_error = ""
    /\ next_line = 0
    /\ logs = <<>>
    /\ lognums = <<>>
    /\ exit_code = None
    /\ last_error = None
    /\ result = NoResult
    /\ outcome = "none"
    /\ submitResp = NoResp
    /\ requests = <<>>
    /\ received = <<>>
    /\ lastResp = NoResp
    /\ xpc = "start"
    /\ xop = "list_dag_runs"
    /\ out = [logs |-> <<>>, exit_code |-> None]
    /\ run_id = ""
    /\ ret = NoResult
    /\ cnow = 0
    /\ spc = [i \in Sessions |-> "idle"]
    /\ sstart = [i \in Sessions |-> 0]
    /\ snext_line = [i \in Sessions |-> 0]
    /\ slogs = [i \in Sessions |-> <<>>]
    /\ shistory = [i \in Sessions |-> <<>>]
    /\ sresult = [i \in Sessions |-> NoResult]

\* the caller enters one of the three copies; the submit request is sent
Call(v, p, t, s) ==
    /\ pc = "idle"
    /\ v = "composer_api" \/ p
    /\ \E o \in Ops :
         /\ VariantOf(o) = v
         /\ op' = o
         /\ submits' = Append(submits, SubmitPayload(o))
    /\ variant' = v
    /\ poll' = p
    /\ timeout_sec' = t
    /\ poll_interval_sec' = s
    /\ pc' = "submit"
    /\ UNCHANGED <<xvars, cvars>>
    /\ UNCHANGED <<now, start, handle, execute_error, next_line, logs, lognums,
                   exit_code, last_error, result, outcome, submitResp, requests,
                   received, lastResp>>

\* the submit response arrives: raise, or take the handle and enter the loop.
\* Only trigger_dag_run reads the "error" key of the body, so only its bodies
\* vary in it.
SubmitResponse(status, body) ==
    /\ pc = "submit"
    /\ variant = "composer_api" \/ "error" \notin DOMAIN body
    /\ submitResp' = [kind |-> "submit", status |-> status, body |-> body]
    /\ IF SubmitRaises(variant, status) \/ ~HasHandleFields(body)
       THEN /\ pc' = "raised"
            /\ outcome' = "submit_error"
            /\ UNCHANGED <<handle, execute_error, start, next_line, result>>
       ELSE /\ handle' = HandleOf(body)
            /\ execute_error' = ExecuteErrorOf(body)
            /\ IF variant = "composer_api" /\ ~poll
               THEN /\ pc' = "returned"
                    /\ outcome' = "unpolled"
                    /\ result' = UnpolledResult(HandleOf(body), ExecuteErrorOf(body))
                    /\ UNCHANGED <<start, next_line>>
               ELSE /\ pc' = "loop"
                    /\ next_line' = InitialNextLine(variant)
                    /\ start' = now
                    /\ UNCHANGED <<result, outcome>>
    /\ UNCHANGED <<xvars, cvars>>
    /\ UNCHANGED <<op, submits, variant, poll, timeout_sec, poll_interval_sec, now, logs,
                   lognums, exit_code, last_error, requests, received, lastResp>>

\* top of the loop: the timeout check, then the next poll request is sent
LoopTop ==
    /\ pc = "loop"
    /\ IF TimedOut(now, start, timeout_sec)
       THEN IF variant = "list_dag_runs"
            THEN /\ pc' = "raised"
                 /\ outcome' = "timeout"
                 /\ UNCHANGED <<last_error, result, requests>>
            ELSE /\ last_error' = Some(TimeoutMessage(variant, timeout_sec))
                 /\ pc' = "returned"
                 /\ outcome' = "timeout"
                 /\ result' = PollResult(variant, handle, execute_error, logs, exit_code,
                                         Some(TimeoutMessage(variant, timeout_sec)), EmptyDict)
                 /\ UNCHANGED requests
       ELSE /\ requests' = Append(requests, PollBody(handle, next_line))
            /\ pc' = "fetch"
            /\ UNCHANGED <<last_error, result, outcome>>
    /\ UNCHANGED <<xvars, cvars>>
    /\ UNCHANGED <<op, submits, variant, poll, timeout_sec, poll_interval_sec, now, start, handle,
                   execute_error, next_line, logs, lognums, exit_code, submitResp,
                   received, lastResp>>

\* the poll response arrives after d: raise_for_status, then the lines of its
\* output are consumed
ConsumeOutput(status, output, d) ==
    /\ now' = now + d
    /\ IF RaiseForStatus(status)
       THEN UNCHANGED <<next_line, logs, lognums, received>>
       ELSE /\ Len(received) + Len(output) <= MaxLogs
            /\ received' = received \o output
            /\ logs' = AppendContents(logs, output)
            /\ lognums' = lognums \o [i \in 1..Len(output) |-> output[i].lineNumber]
            /\ next_line' = AdvanceCursor(next_line, output)

\* mutant: the result is built from the logs as they were before the final
\* response was consumed
CheckOutputEnd_staleLogs(status, resp) ==
    IF RaiseForStatus(status)
    THEN /\ lastResp' = [kind |-> "error", status |-> status]
         /\ pc' = "raised"
         /\ outcome' = "transport_error"
         /\ UNCHANGED <<exit_code, last_error, result>>
    ELSE /\ lastResp' = [kind |-> "ok", status |-> status,
                         outputEnd |-> resp.outputEnd.present /\ resp.outputEnd.value,
                         exitInfo |-> resp.exitInfo]
         /\ IF OutputEnd(resp)
            THEN /\ exit_code' = ExitCodeOf(resp)
                 /\ last_error' = ExitErrorOf(resp)
                 /\ pc' = "returned"
                 /\ outcome' = "terminal"
                 /\ result' = PollResult(variant, handle, execute_error, logs,
                                         ExitCodeOf(resp), ExitErrorOf(resp),
                                         ExitInfoOf(resp))
            ELSE /\ pc' = "sleep"
                 /\ UNCHANGED <<exit_code, last_error, result, outcome>>

\* the rest of the iteration: finish on outputEnd, or go to sleep
CheckOutputEnd(status, resp) ==
    IF RaiseForStatus(status)
    THEN /\ lastResp' = [kind |-> "error", status |-> status]
         /\ pc' = "raised"
         /\ outcome' = "transport_error"
         /\ UNCHANGED <<exit_code, last_error, result>>
    ELSE /\ lastResp' = [kind |-> "ok", status |-> status,
                         outputEnd |-> resp.outputEnd.present /\ resp.outputEnd.value,
                         exitInfo |-> resp.exitInfo]
         /\ IF OutputEnd(resp)
            THEN /\ exit_code' = ExitCodeOf(resp)
                 /\ last_error' = ExitErrorOf(resp)
                 /\ pc' = "returned"
                 /\ outcome' = "terminal"
                 /\ result' = PollResult(variant, handle, execute_error, logs',
                                         ExitCodeOf(resp), ExitErrorOf(resp),
                                         ExitInfoOf(resp))
            ELSE /\ pc' = "sleep"
                 /\ UNCHANGED <<exit_code, last_error, result, outcome>>

\* the outputs / endings the backend can send with a status when room lines
\* still fit
OutputsFor(status, room) ==
    IF IsErrorStatus(status) THEN {<<>>} ELSE OutputsByRoom[Min(MaxBatch, room)]

EndingsFor(status) == IF IsErrorStatus(status) THEN {ErrorEnding} ELSE Endings

\* one poll response arrives and is handled
FetchResponse ==
    /\ pc = "fetch"
    /\ \E status \in Statuses, d \in Delays :
         \E output \in OutputsFor(status, MaxLogs - Len(received)) :
           /\ ConsumeOutput(status, output, d)
           /\ \E resp \in EndingsFor(status) : CheckOutputEnd(status, resp)
    /\ UNCHANGED <<xvars, cvars>>
    /\ UNCHANGED <<op, submits, variant, poll, timeout_sec, poll_interval_sec, start, handle,
                   execute_error, submitResp, requests>>

\* time.sleep(poll_interval_sec)
Sleep ==
    /\ pc = "sleep"
    /\ now' = now + poll_interval_sec
    /\ pc' = "loop"
    /\ UNCHANGED <<xvars, cvars>>
    /\ UNCHANGED <<op, submits, variant, poll, timeout_sec, poll_interval_sec, start, handle,
                   execute_error, next_line, logs, lognums, exit_code, last_error,
                   result, outcome, submitResp, requests, received, lastResp>>

Next ==
    \/ \E v \in Variants, p \in BOOLEAN, t \in Timeouts, s \in Intervals : Call(v, p, t, s)
    \/ \E status \in Statuses, body \in SubmitBodies : SubmitResponse(status, body)
    \/ LoopTop
    \/ FetchResponse
    \/ Sleep

Spec == Init /\ [][Next]_vars

\* the loop is a running program and every fetch returns
FairSpec == Spec /\ WF_vars(LoopTop) /\ WF_vars(Sleep) /\ WF_vars(FetchResponse)

TypeOK ==
    /\ variant \in Variants
    /\ pc \in {"idle", "submit", "loop", "fetch", "sleep", "returned", "raised"}
    /\ next_line \in 0..(MaxLine + 1)
    /\ Len(logs) = Len(lognums)

----------------------------------------------------------------------------
(* Polling sessions of several handles, interleaved *)

\* a session receives at most this many lines
MaxSessionLines == 1

SessionHandle(i) ==
    [execution_id |-> IF i = 1 THEN "e1" ELSE "e2", pod |-> "p1", pod_namespace |-> "n1"]

SessionStatuses == {200, 503}

\* a session's responses arrive at once; its clock advances in its sleeps
SessionDelays == {0}

\* the endings the backend sends to a session: output not ended, or ended with
\* an exitInfo that has an exit code
SessionEndings ==
    {e \in Endings :
        /\ e.outputEnd.present
        /\ e.outputEnd.value
              => /\ e.exitInfo.present
                 /\ e.exitInfo.value # None
                 /\ "exitCode" \in DOMAIN e.exitInfo.value[1]}

\* mutant: every call works on the variables of the first call
Frame_shared(i) == 1

\* the local variables of a call belong to that call
Frame(i) == i

\* the lines a session has received
RECURSIVE LinesIn(_)
LinesIn(hist) ==
    IF hist = <<>> THEN 0
    ELSE LinesIn(SubSeq(hist, 1, Len(hist) - 1))
         + (IF hist[Len(hist)].k = "resp" THEN Len(hist[Len(hist)].output) ELSE 0)

\* _poll_airflow_command is entered for the session's handle
Enter(i) ==
    /\ spc[i] = "idle"
    /\ spc' = [spc EXCEPT ![i] = "loop"]
    /\ sstart' = [sstart EXCEPT ![Frame(i)] = cnow]
    /\ snext_line' = [snext_line EXCEPT ![Frame(i)] = InitialNextLine("check_dag_status")]
    /\ slogs' = [slogs EXCEPT ![Frame(i)] = <<>>]
    /\ UNCHANGED <<cnow, shistory, sresult>>
    /\ UNCHANGED <<pvars, xvars>>

\* top of a session's loop: the timeout check, then the next poll request
SessionLoopTop(i) ==
    /\ spc[i] = "loop"
    /\ IF TimedOut(cnow, sstart[Frame(i)], timeout_sec)
       THEN /\ spc' = [spc EXCEPT ![i] = "returned"]
            /\ shistory' = [shistory EXCEPT ![i] = Append(@, [k |-> "timeout"])]
            /\ sresult' = [sresult EXCEPT ![i] =
                             PollResult("check_dag_status", SessionHandle(i), "",
                                        slogs[Frame(i)], None,
                                        Some(TimeoutMessage("check_dag_status", timeout_sec)),
                                        EmptyDict)]
       ELSE /\ spc' = [spc EXCEPT ![i] = "fetch"]
            /\ shistory' = [shistory EXCEPT ![i] =
                              Append(@, [k |-> "req",
                                         body |-> PollBody(SessionHandle(i),
                                                           snext_line[Frame(i)])])]
            /\ UNCHANGED sresult
    /\ UNCHANGED <<cnow, sstart, snext_line, slogs>>
    /\ UNCHANGED <<pvars, xvars>>

\* a poll response of a session arrives and is handled
SessionFetchResponse(i) ==
    /\ spc[i] = "fetch"
    /\ \E status \in SessionStatuses, d \in SessionDelays :
         \E output \in OutputsFor(status, MaxSessionLines - LinesIn(shistory[i])) :
           \E resp \in IF IsErrorStatus(status) THEN {ErrorEnding} ELSE SessionEndings :
             /\ cnow' = cnow + d
             /\ shistory' = [shistory EXCEPT ![i] =
                               Append(@, [k |-> "resp", status |-> status,
                                          output |-> output, resp |-> resp])]
             /\ IF RaiseForStatus(status)
                THEN /\ spc' = [spc EXCEPT ![i] = "raised"]
                     /\ UNCHANGED <<snext_line, slogs, sresult>>
                ELSE /\ slogs' = [slogs EXCEPT ![Frame(i)] = AppendContents(@, output)]
                     /\ snext_line' = [snext_line EXCEPT ![Frame(i)] = AdvanceCursor(@, output)]
                     /\ IF OutputEnd(resp)
                        THEN /\ spc' = [spc EXCEPT ![i] = "returned"]
                             /\ sresult' = [sresult EXCEPT ![i] =
                                   PollResult("check_dag_status", SessionHandle(i), "",
                                              slogs'[Frame(i)], ExitCodeOf(resp),
                                              ExitErrorOf(resp), ExitInfoOf(resp))]
                        ELSE /\ spc' = [spc EXCEPT ![i] = "sleep"]
                             /\ UNCHANGED sresult
    /\ UNCHANGED sstart
    /\ UNCHANGED <<pvars, xvars>>

\* time.sleep(poll_interval_sec) of a session
SessionSleep(i) ==
    /\ spc[i] = "sleep"
    /\ cnow' = cnow + poll_interval_sec
    /\ spc' = [spc EXCEPT ![i] = "loop"]
    /\ UNCHANGED <<sstart, snext_line, slogs, shistory, sresult>>
    /\ UNCHANGED <<pvars, xvars>>

CNext ==
    \E i \in Sessions :
        \/ Enter(i)
        \/ SessionLoopTop(i)
        \/ SessionFetchResponse(i)
        \/ SessionSleep(i)

ConcSpec == Init /\ [][CNext]_vars

----------------------------------------------------------------------------
(* The text of the command's output *)

\* A string is a sequence of tokens: whitespace, a newline, a bracket, a comma,
\* a word (characters other than these), or the text of one JSON object.
\* No two words of a line are adjacent, so a word is a whole split() token.
WS == [t |-> "ws"]
NL == [t |-> "nl"]
LB == [t |-> "["]
RB == [t |-> "]"]
CM == [t |-> ","]
W(text) == [t |-> "word", text |-> text]
Obj(d) == [t |-> "obj", d |-> d]

IsSpace(tok) == tok.t \in {"ws", "nl"}

\* str.lower() on the words of the model
Lower(text) ==
    CASE text = "Success" -> "success"
      [] text = "FAILED" -> "failed"
      [] text = "R1" -> "r1"
      [] OTHER -> text

\* sub in text, for a run id and the words and run ids of the model
IsSubstring(sub, text) == text = sub \/ <<sub, text>> \in {<<"r1", "r10">>}

\* str.strip()
RECURSIVE LStrip(_)
LStrip(s) == IF s # <<>> /\ IsSpace(s[1]) THEN LStrip(Tail(s)) ELSE s

RECURSIVE RStrip(_)
RStrip(s) ==
    IF s # <<>> /\ IsSpace(s[Len(s)]) THEN RStrip(SubSeq(s, 1, Len(s) - 1)) ELSE s

Strip(s) == RStrip(LStrip(s))

\* the text of a string that is one word, else None: only such a string can
\* equal a state name
AsWord(s) == IF Len(s) = 1 /\ s[1].t = "word" THEN Some(s[1].text) ELSE None

\* str.split(): the maximal runs of tokens that are not whitespace
RECURSIVE SplitFrom(_, _, _)
SplitFrom(s, cur, acc) ==
    IF s = <<>> THEN (IF cur = <<>> THEN acc ELSE Append(acc, cur))
    ELSE IF IsSpace(s[1])
         THEN SplitFrom(Tail(s), <<>>, IF cur = <<>> THEN acc ELSE Append(acc, cur))
         ELSE SplitFrom(Tail(s), Append(cur, s[1]), acc)

Split(s) == SplitFrom(s, <<>>, <<>>)

\* "\n".join(lines)
RECURSIVE Join(_)
Join(lines) ==
    IF lines = <<>> THEN <<>>
    ELSE IF Len(lines) = 1 THEN lines[1]
    ELSE lines[1] \o <<NL>> \o Join(Tail(lines))

\* str.find / str.rfind of a one-character string: 0-based index, or -1
Find(s, tok) ==
    IF \E i \in 1..Len(s) : s[i] = tok
    THEN (CHOOSE i \in 1..Len(s) : s[i] = tok /\ \A j \in 1..(i - 1) : s[j] # tok) - 1
    ELSE -1

RFind(s, tok) ==
    IF \E i \in 1..Len(s) : s[i] = tok
    THEN (CHOOSE i \in 1..Len(s) : s[i] = tok /\ \A j \in (i + 1)..Len(s) : s[j] # tok) - 1
    ELSE -1

\* s[first:last + 1]
Slice(s, first, last) == SubSeq(s, first + 1, last + 1)

\* run_id in line: the run id occurs in a word or in an object's run_id text
RunIdIn(rid, line) ==
    \E i \in 1..Len(line) :
        \/ line[i].t = "word" /\ IsSubstring(rid, line[i].text)
        \/ /\ line[i].t = "obj"
           /\ Get(line[i].d, "run_id") # None
           /\ IsSubstring(rid, Get(line[i].d, "run_id")[1])

\* json.loads: a JSON value here is an object or an array of values; the
\* outcome is the value, or ok = FALSE where json.loads raises
JsonError == [ok |-> FALSE]

RECURSIVE SkipSpace(_, _)
SkipSpace(s, i) == IF i <= Len(s) /\ IsSpace(s[i]) THEN SkipSpace(s, i + 1) ELSE i

RECURSIVE ParseValue(_, _)
RECURSIVE ParseItems(_, _, _)
ParseValue(s, i) ==
    LET j == SkipSpace(s, i)
    IN IF j > Len(s) THEN JsonError
       ELSE IF s[j].t = "obj"
            THEN [ok |-> TRUE, val |-> [k |-> "dict", d |-> s[j].d], next |-> j + 1]
       ELSE IF s[j].t = "["
            THEN LET e == SkipSpace(s, j + 1)
                 IN IF e <= Len(s) /\ s[e].t = "]"
                    THEN [ok |-> TRUE, val |-> [k |-> "list", items |-> <<>>],
                          next |-> e + 1]
                    ELSE ParseItems(s, j + 1, <<>>)
       ELSE JsonError

ParseItems(s, i, acc) ==
    LET v == ParseValue(s, i)
    IN IF ~v.ok THEN JsonError
       ELSE LET e == SkipSpace(s, v.next)
            IN IF e > Len(s) THEN JsonError
               ELSE IF s[e].t = ","
                    THEN ParseItems(s, e + 1, Append(acc, v.val))
               ELSE IF s[e].t = "]"
                    THEN [ok |-> TRUE,
                          val |-> [k |-> "list", items |-> Append(acc, v.val)],
                          next |-> e + 1]
               ELSE JsonError

JsonLoads(s) ==
    LET v == ParseValue(s, 1)
    IN IF v.ok /\ SkipSpace(s, v.next) > Len(s)
       THEN [ok |-> TRUE, val |-> v.val]
       ELSE JsonError

----------------------------------------------------------------------------
(* Extraction of data from the logs *)

\* x or y, where empty is the empty string of the values' type
PyOr(x, y, empty) == IF x = None \/ x = Some(empty) THEN y ELSE x

\* comparison of two strings of characters, as Python compares str
RECURSIVE StrLess(_, _)
StrLess(a, b) ==
    IF b = <<>> THEN FALSE
    ELSE IF a = <<>> THEN TRUE
    ELSE IF a[1] # b[1] THEN a[1] < b[1]
    ELSE StrLess(Tail(a), Tail(b))

ScalarStates == {"success", "failed", "running", "queued", "up_for_retry",
                 "up_for_reschedule", "skipped", "none"}
TableStates == {"success", "failed", "running", "queued", "up_for_retry",
                "up_for_reschedule", "skipped"}

\* what a call hands back: a list of runs, or an exception that leaves it
RunsResult(l) == [kind |-> "runs", runs |-> l]
PyNone == [kind |-> "None"]
AttributeError == [kind |-> "AttributeError"]
IsException(v) == v.kind \in {"AttributeError", "IndexError", "JSONDecodeError"}

\* mutant: the decode error is not caught
ParseFailureRuns_uncaught == [kind |-> "JSONDecodeError"]

\* except Exception: return []
ParseFailureRuns == RunsResult(<<>>)

\* list_dag_runs after the poll: the array between the first "[" and the last
\* "]" of the joined logs, or []
ListDagRunsOf(lg) ==
    LET payload == Join(lg)
        first == Find(payload, LB)
        last == RFind(payload, RB)
    IN IF first = -1 \/ last = -1 \/ last <= first
       THEN RunsResult(<<>>)
       ELSE LET p == JsonLoads(Slice(payload, first, last))
            IN IF p.ok THEN RunsResult(p.val.items) ELSE ParseFailureRuns

\* _ts(r): the recency key
Ts(r) ==
    PyOr(PyOr(PyOr(Get(r, "logical_date"), Get(r, "execution_date"), <<>>),
              Get(r, "start_date"), <<>>),
         Some(<<>>), <<>>)[1]

\* (r.get("state") or "").lower()
StateOf(r) == Lower(PyOr(Get(r, "state"), Some(""), "")[1])

\* r.get("logical_date") or r.get("execution_date")
LogicalDateOf(r) == PyOr(Get(r, "logical_date"), Get(r, "execution_date"), <<>>)

\* mutant: a record goes in front of the records with an equal key
InsertDesc_beforeEqual(sorted, r) ==
    LET before == {i \in 1..Len(sorted) : StrLess(Ts(r), Ts(sorted[i]))}
        n == Cardinality(before)
    IN SubSeq(sorted, 1, n) \o <<r>> \o SubSeq(sorted, n + 1, Len(sorted))

\* sorted(runs, key=_ts, reverse=True): a stable sort, so a record goes behind
\* the records before it whose key is not smaller
InsertDesc(sorted, r) ==
    LET before == {i \in 1..Len(sorted) : ~StrLess(Ts(sorted[i]), Ts(r))}
        n == Cardinality(before)
    IN SubSeq(sorted, 1, n) \o <<r>> \o SubSeq(sorted, n + 1, Len(sorted))

RECURSIVE SortedDesc(_, _)
SortedDesc(runs, acc) ==
    IF runs = <<>> THEN acc ELSE SortedDesc(Tail(runs), InsertDesc(acc, runs[1]))

\* the dict get_latest_dag_run_status builds from the latest run
LatestSummary(latest) ==
    [kind |-> "latest",
     run_id |-> Get(latest, "run_id"),
     state |-> StateOf(latest),
     logical_date |-> LogicalDateOf(latest),
     start_date |-> Get(latest, "start_date")]

\* mutant: without the test for an empty list, runs_sorted[0] fails
GetLatestOf_noEmptyTest(runs) ==
    IF runs = <<>> THEN [kind |-> "IndexError"]
    ELSE IF \E i \in 1..Len(runs) : runs[i].k # "dict" THEN AttributeError
    ELSE LatestSummary(SortedDesc([i \in 1..Len(runs) |-> runs[i].d], <<>>)[1])

\* get_latest_dag_run_status after list_dag_runs returned runs; an element
\* that is not a dict has no get
GetLatestOf(runs) ==
    IF runs = <<>> THEN PyNone
    ELSE IF \E i \in 1..Len(runs) : runs[i].k # "dict" THEN AttributeError
    ELSE LatestSummary(SortedDesc([i \in 1..Len(runs) |-> runs[i].d], <<>>)[1])

\* mutant: the scan runs from the first line, so the first match wins
RECURSIVE DetectedFrom_firstWins(_, _)
DetectedFrom_firstWins(lg, i) ==
    IF i = 0 THEN None
    ELSE LET earlier == DetectedFrom_firstWins(lg, i - 1)
             token == AsWord(Strip(lg[i]))
         IN IF earlier # None THEN earlier
            ELSE IF token # None /\ Lower(token[1]) \in ScalarStates
            THEN Some(Lower(token[1]))
            ELSE None

\* for line in reversed(out["logs"]): the first line, from the end, whose
\* stripped and lowered text is a state
RECURSIVE DetectedFrom(_, _)
DetectedFrom(lg, i) ==
    IF i = 0 THEN None
    ELSE LET token == AsWord(Strip(lg[i]))
         IN IF token # None /\ Lower(token[1]) \in ScalarStates
            THEN Some(Lower(token[1]))
            ELSE DetectedFrom(lg, i - 1)

GetDagRunStateByLogicalDateOf(o) ==
    [kind |-> "by_logical_date", state |-> DetectedFrom(o.logs, Len(o.logs)),
     exit_code |-> o.exit_code]

\* mutant: run ids are compared without regard to case
RECURSIVE ScanRuns_ignoreCase(_, _, _)
ScanRuns_ignoreCase(arr, i, rid) ==
    IF i > Len(arr) THEN [k |-> "nomatch"]
    ELSE IF arr[i].k # "dict" THEN [k |-> "raise"]
    ELSE IF /\ Get(arr[i].d, "run_id") # None
            /\ Lower(Get(arr[i].d, "run_id")[1]) = Lower(rid)
         THEN [k |-> "match", r |-> arr[i].d]
    ELSE ScanRuns_ignoreCase(arr, i + 1, rid)

\* for r in arr: the first record with the run id, unless an element that is
\* not a dict comes before it
RECURSIVE ScanRuns(_, _, _)
ScanRuns(arr, i, rid) ==
    IF i > Len(arr) THEN [k |-> "nomatch"]
    ELSE IF arr[i].k # "dict" THEN [k |-> "raise"]
    ELSE IF Get(arr[i].d, "run_id") = Some(rid) THEN [k |-> "match", r |-> arr[i].d]
    ELSE ScanRuns(arr, i + 1, rid)

\* mutant: the payload is consulted whatever the exit code
JsonBranch_anyExitCode(o, rid) ==
    IF o.logs = <<>>
    THEN [k |-> "skip", parsed |-> FALSE]
    ELSE LET joined == Join(o.logs)
             first_brace == Find(joined, LB)
             last_brace == RFind(joined, RB)
         IN IF ~(first_brace # -1 /\ last_brace # -1 /\ last_brace > first_brace)
            THEN [k |-> "skip", parsed |-> FALSE]
            ELSE LET p == JsonLoads(Slice(joined, first_brace, last_brace))
                 IN IF ~p.ok THEN [k |-> "except", parsed |-> FALSE]
                    ELSE LET m == ScanRuns(p.val.items, 1, rid)
                         IN IF m.k = "match"
                            THEN [k |-> "return", parsed |-> TRUE, r |-> m.r]
                            ELSE IF m.k = "raise"
                            THEN [k |-> "except", parsed |-> FALSE]
                            ELSE [k |-> "nomatch", parsed |-> TRUE]

\* the try block: what it returns, or whether the payload counts as parsed
JsonBranch(o, rid) ==
    IF ~(o.exit_code = Some(0) /\ o.logs # <<>>)
    THEN [k |-> "skip", parsed |-> FALSE]
    ELSE LET joined == Join(o.logs)
             first_brace == Find(joined, LB)
             last_brace == RFind(joined, RB)
         IN IF ~(first_brace # -1 /\ last_brace # -1 /\ last_brace > first_brace)
            THEN [k |-> "skip", parsed |-> FALSE]
            ELSE LET p == JsonLoads(Slice(joined, first_brace, last_brace))
                 IN IF ~p.ok THEN [k |-> "except", parsed |-> FALSE]
                    ELSE LET m == ScanRuns(p.val.items, 1, rid)
                         IN IF m.k = "match"
                            THEN [k |-> "return", parsed |-> TRUE, r |-> m.r]
                            ELSE IF m.k = "raise"
                            THEN [k |-> "except", parsed |-> FALSE]
                            ELSE [k |-> "nomatch", parsed |-> TRUE]

\* found = [t.lower() for t in tokens if t.lower() in states]
RECURSIVE FoundStates(_)
FoundStates(tokens) ==
    IF tokens = <<>> THEN <<>>
    ELSE LET w == AsWord(tokens[1])
         IN (IF w # None /\ Lower(w[1]) \in TableStates THEN <<Lower(w[1])>> ELSE <<>>)
            \o FoundStates(Tail(tokens))

\* the text-table fallback: the first line with the run id that has a state
RECURSIVE TableScan(_, _, _)
TableScan(lg, i, rid) ==
    IF i > Len(lg) THEN None
    ELSE LET found == IF RunIdIn(rid, lg[i]) THEN FoundStates(Split(lg[i])) ELSE <<>>
         IN IF found # <<>> THEN Some(found[1]) ELSE TableScan(lg, i + 1, rid)

GetDagRunStateByRunIdOf(o, rid) ==
    LET j == JsonBranch(o, rid)
    IN IF j.k = "return"
       THEN [kind |-> "run", run_id |-> rid, logical_date |-> LogicalDateOf(j.r),
             state |-> Some(StateOf(j.r)), exit_code |-> o.exit_code]
       ELSE [kind |-> "scan", run_id |-> rid,
             state |-> IF j.parsed THEN None ELSE TableScan(o.logs, 1, rid),
             exit_code |-> o.exit_code]

----------------------------------------------------------------------------
(* Extraction calls on given poll results *)

\* at most this many lines of other output around the payload
MaxNoise == 1
\* at most this many runs in a payload
MaxRuns == 2
\* at most this many lines in the output of dags state
MaxStateLines == 2

XOps == {"list_dag_runs", "get_latest_dag_run_status",
         "get_dag_run_state_by_logical_date", "get_dag_run_state_by_run_id"}

RunIds == {"r1", "r2"}
XExitCodes == {Some(0), Some(1), None}

\* lines the CLI prints besides the payload
NoiseLines ==
    { <<WS, W("Success"), WS>>,
      <<W("none")>>,
      <<W("state"), WS, W("running")>>,
      <<W("r1"), WS, W("queued"), WS, W("FAILED")>>,
      <<LB, W("info"), RB>>,
      <<RB, WS, LB>> }

\* run records of dags list-runs -o json; a date is a string of characters
RunPool ==
    { [run_id |-> Some("r1"), state |-> Some("Success"), logical_date |-> Some(<<2>>)],
      [run_id |-> Some("r1"), state |-> Some("failed"), logical_date |-> Some(<<>>),
       execution_date |-> Some(<<2>>), start_date |-> Some(<<3>>)],
      [run_id |-> Some("R1"), state |-> None, start_date |-> Some(<<2, 1>>)],
      [state |-> Some("running")] }

RunLists == SeqsUpTo(RunPool, MaxRuns)

\* the array printed on one line
RECURSIVE RenderItems(_)
RenderItems(rs) ==
    IF rs = <<>> THEN <<>>
    ELSE IF Len(rs) = 1 THEN <<Obj(rs[1])>>
    ELSE <<Obj(rs[1]), CM, WS>> \o RenderItems(Tail(rs))

RenderLine(rs) == << <<LB>> \o RenderItems(rs) \o <<RB>> >>

\* the array pretty-printed, one record per line
RenderPretty(rs) ==
    << <<LB>> >>
    \o [i \in 1..Len(rs) |-> <<WS, Obj(rs[i])>> \o (IF i < Len(rs) THEN <<CM>> ELSE <<>>)]
    \o << <<RB>> >>

\* an array whose one element is an array of at most one record: valid JSON
\* that is not a list of records
RenderNested(rs) == << <<LB>> \o RenderLine(rs)[1] \o <<RB>> >>

Payloads ==
    {<<>>} \cup {RenderLine(rs) : rs \in RunLists}
           \cup {RenderPretty(rs) : rs \in RunLists \ {<<>>}}
           \cup {RenderNested(rs) : rs \in {l \in RunLists : Len(l) <= 1}}

\* the logs of a finished poll: a payload, or none, among other lines
LogInputs ==
    UNION { { SubSeq(n, 1, p) \o pl \o SubSeq(n, p + 1, Len(n)) :
                p \in 0..Len(n), pl \in Payloads } :
            n \in SeqsUpTo(NoiseLines, MaxNoise) }

XInit ==
    /\ op = "trigger_dag_run"
    /\ submits = <<>>
    /\ variant = "composer_api"
    /\ poll = TRUE
    /\ timeout_sec = 1
    /\ poll_interval_sec = 1
    /\ pc = "idle"
    /\ now = 0
    /\ start = 0
    /\ handle = NoHandle
    /\ execute_error = ""
    /\ next_line = 0
    /\ logs = <<>>
    /\ lognums = <<>>
    /\ exit_code = None
    /\ last_error = None
    /\ result = NoResult
    /\ outcome = "none"
    /\ submitResp = NoResp
    /\ requests = <<>>
    /\ received = <<>>
    /\ lastResp = NoResp
    /\ xpc = "start"
    /\ ret = NoResult
    /\ cnow = 0
    /\ spc = [i \in Sessions |-> "idle"]
    /\ sstart = [i \in Sessions |-> 0]
    /\ snext_line = [i \in Sessions |-> 0]
    /\ slogs = [i \in Sessions |-> <<>>]
    /\ shistory = [i \in Sessions |-> <<>>]
    /\ sresult = [i \in Sessions |-> NoResult]
    /\ xop \in XOps
    /\ run_id \in IF xop = "get_dag_run_state_by_run_id" THEN RunIds ELSE {""}
    /\ out \in [logs : IF xop = "get_dag_run_state_by_logical_date"
                       THEN SeqsUpTo(NoiseLines, MaxStateLines) ELSE LogInputs,
                exit_code : IF xop = "get_dag_run_state_by_run_id"
                            THEN XExitCodes ELSE {Some(0)}]

\* the return (or the uncaught exception) of an extraction call
Return(v) ==
    /\ ret' = v
    /\ xpc' = IF IsException(v) THEN "raised" ELSE "returned"
    /\ UNCHANGED <<xop, out, run_id>>
    /\ UNCHANGED <<pvars, cvars>>

ListDagRuns ==
    /\ xpc = "start" /\ xop = "list_dag_runs"
    /\ Return(ListDagRunsOf(out.logs))

GetLatestDagRunStatus ==
    /\ xpc = "start" /\ xop = "get_latest_dag_run_status"
    /\ LET runs == ListDagRunsOf(out.logs)
       IN Return(IF IsException(runs) THEN runs ELSE GetLatestOf(runs.runs))

GetDagRunStateByLogicalDate ==
    /\ xpc = "start" /\ xop = "get_dag_run_state_by_logical_date"
    /\ Return(GetDagRunStateByLogicalDateOf(out))

GetDagRunStateByRunId ==
    /\ xpc = "start" /\ xop = "get_dag_run_state_by_run_id"
    /\ Return(GetDagRunStateByRunIdOf(out, run_id))

XNext ==
    \/ ListDagRuns
    \/ GetLatestDagRunStatus
    \/ GetDagRunStateByLogicalDate
    \/ GetDagRunStateByRunId

ExtractSpec == XInit /\ [][XNext]_vars

----------------------------------------------------------------------------
(* Vocabulary of the claims *)

PollPcs == {"loop", "fetch", "sleep"}
FinalPcs == {"returned", "raised"}

NonSuccess(status) == ~(status >= 200 /\ status < 300)

\* the outcome of an ended session and what justifies it
StoppedForAReason ==
    \/ outcome = "terminal" /\ lastResp.kind = "ok" /\ lastResp.outputEnd
    \/ outcome = "timeout" /\ now - start > timeout_sec
    \/ outcome = "transport_error" /\ lastResp.kind = "error" /\ NonSuccess(lastResp.status)

StrictlyIncreasing(ns) == \A i, j \in 1..Len(ns) : i < j => ns[i] < ns[j]

LineNumbersOf(ls) == [i \in 1..Len(ls) |-> ls[i].lineNumber]

\* the contents of a set of lines with distinct numbers, by ascending line number
RECURSIVE ContentsByLineNumber(_)
ContentsByLineNumber(ls) ==
    IF ls = {} THEN <<>>
    ELSE LET first == CHOOSE l \in ls : \A m \in ls : l.lineNumber <= m.lineNumber
         IN <<first.content>> \o ContentsByLineNumber(ls \ {first})

Range(f) == {f[i] : i \in DOMAIN f}

\* exitCode / error as the caller reads them off a poll result
ResultExitCode(r) ==
    IF r.kind = "list_dag_runs" THEN Get(r.exitInfo, "exitCode") ELSE r.exit_code

ResultError(r) ==
    CASE r.kind = "list_dag_runs" -> Get(r.exitInfo, "error")
      [] r.kind = "composer_api" -> r.exit_error
      [] OTHER -> r.error

\* a field of the exitInfo substructure as the response carried it
ExitField(x, k) ==
    IF ~x.present \/ x.value = None THEN None
    ELSE IF k \in DOMAIN x.value[1] THEN x.value[1][k] ELSE None

\* the largest element of a non-empty sequence of numbers
MaxOf(ns) == CHOOSE m \in Range(ns) : \A n \in Range(ns) : n <= m

\* the lines a step adds to the lines received
NewLines == SubSeq(received', Len(received) + 1, Len(received'))

\* the keys of a returned dict (kind is the model's tag of the result's shape)
ResultKeys(r) == DOMAIN r \ {"kind"}

\* the call has sent exactly one submit request, the one of its operation
OneSubmit ==
    /\ pc = "idle" => submits = <<>>
    /\ pc # "idle" => submits = <<SubmitPayload(op)>>

\* a step that sends a poll request happens with the submit response in hand
PollsFollowSubmitResponse ==
    [][requests' # requests
          => /\ submitResp.kind = "submit"
             /\ ~SubmitRaises(variant, submitResp.status)
             /\ handle = HandleOf(submitResp.body)
             /\ submits' = submits]_vars

\* trigger_dag_run(poll=False) sends no poll request
UnpolledNeverPolls == (op = "trigger_dag_run" /\ ~poll) => requests = <<>>

\* a response with outputEnd true was the last one received
EndSeen == lastResp.kind = "ok" /\ lastResp.outputEnd

\* what json.loads makes of the text between the first "[" and the last "]"
\* of the joined logs; JsonError when there is no such text or it is not JSON
PayloadOf(lg) ==
    LET joined == Join(lg)
        first == Find(joined, LB)
        last == RFind(joined, RB)
    IN IF first = -1 \/ last = -1 \/ last <= first
       THEN JsonError
       ELSE JsonLoads(Slice(joined, first, last))

\* the payload is an array of run records
HasRecords(lg) ==
    /\ PayloadOf(lg).ok
    /\ \A i \in 1..Len(PayloadOf(lg).val.items) : PayloadOf(lg).val.items[i].k = "dict"

Records(lg) ==
    [i \in 1..Len(PayloadOf(lg).val.items) |-> PayloadOf(lg).val.items[i].d]

\* a field of a record that holds a non-empty string
Present(r, key) == key \in DOMAIN r /\ r[key] # None /\ r[key] # Some(<<>>)

\* the recency key: logical_date, else execution_date, else start_date, else ""
RecencyKey(r) ==
    IF Present(r, "logical_date") THEN r.logical_date[1]
    ELSE IF Present(r, "execution_date") THEN r.execution_date[1]
    ELSE IF Present(r, "start_date") THEN r.start_date[1]
    ELSE <<>>

\* the state a line stands for: its trimmed, lower-cased content if that is a
\* member of the RunState set
StateTokenOf(line) ==
    LET w == AsWord(Strip(line))
    IN IF w # None /\ Lower(w[1]) \in ScalarStates THEN Some(Lower(w[1])) ELSE None

\* positions of the records with exactly the requested run_id
MatchesOf(runs, rid) ==
    {i \in 1..Len(runs) : "run_id" \in DOMAIN runs[i] /\ runs[i].run_id = Some(rid)}

\* the least element of a non-empty set of positions
Least(S) == CHOOSE i \in S : \A j \in S : i <= j

Greatest(S) == CHOOSE i \in S : \A j \in S : j <= i

\* cursor and logs of a session that runs alone and receives the responses of
\* hist
RECURSIVE AloneState(_)
AloneState(hist) ==
    IF hist = <<>>
    THEN [next_line |-> InitialNextLine("check_dag_status"), logs |-> <<>>]
    ELSE LET prev == AloneState(SubSeq(hist, 1, Len(hist) - 1))
             e == hist[Len(hist)]
         IN IF e.k = "resp" /\ ~RaiseForStatus(e.status)
            THEN [next_line |-> AdvanceCursor(prev.next_line, e.output),
                  logs |-> AppendContents(prev.logs, e.output)]
            ELSE prev

\* what that session returns after hist
AloneResult(i, hist) ==
    LET e == hist[Len(hist)]
    IN IF e.k = "timeout"
       THEN PollResult("check_dag_status", SessionHandle(i), "", AloneState(hist).logs,
                       None, Some(TimeoutMessage("check_dag_status", timeout_sec)),
                       EmptyDict)
       ELSE PollResult("check_dag_status", SessionHandle(i), "", AloneState(hist).logs,
                       ExitCodeOf(e.resp), ExitErrorOf(e.resp), ExitInfoOf(e.resp))

\* the state the forward text-table scan resolves: the first state token of
\* the first line that contains the run id and has a state token
TableStateOf(lg, rid) ==
    LET hits == {i \in 1..Len(lg) :
                    RunIdIn(rid, lg[i]) /\ FoundStates(Split(lg[i])) # <<>>}
    IN IF hits = {} THEN None ELSE Some(FoundStates(Split(lg[Least(hits)]))[1])

\* the elements of the parsed payload
ItemsOf(lg) == PayloadOf(lg).val.items

\* a record with the run id stands in the payload before any element that is
\* not a record
MatchBeforeNonRecord(lg, rid) ==
    \E i \in 1..Len(ItemsOf(lg)) :
        /\ \A j \in 1..i : ItemsOf(lg)[j].k = "dict"
        /\ Get(ItemsOf(lg)[i].d, "run_id") = Some(rid)

\* a get_dag_run_state_by_run_id call has ended
ByRunIdDone == xop = "get_dag_run_state_by_run_id" /\ xpc # "start"

\* without exit code 0 the state is the one of the text-table scan alone
ScanAloneWithoutExitZero ==
    (ByRunIdDone /\ out.exit_code # Some(0))
    => (ret.kind = "scan" /\ ret.state = TableStateOf(out.logs, run_id))

----------------------------------------------------------------------------
(* Claims *)

\* C1: the logs a poll session returns are in strictly increasing line-number
\* order and hold no line number twice, whatever the responses were.
C1_LogsStrictlyOrdered ==
    (pc = "returned" /\ outcome \in {"terminal", "timeout"}) => StrictlyIncreasing(lognums)

\* C2: the nextLineNumber sent in a fetch is never lower than the one sent in
\* an earlier fetch of the session.
C2_CursorNeverDecreases ==
    \A i, j \in 1..Len(requests) :
        i < j => requests[i].nextLineNumber <= requests[j].nextLineNumber

\* C3: when the timeout budget elapses before outputEnd, every poll operation
\* returns normally a non-terminal result with a timeout indication in its
\* error field and the logs accumulated so far; it does not raise.
C3_TimeoutIsSoft ==
    outcome = "timeout" =>
        /\ pc = "returned"
        /\ result # NoResult
        /\ ResultError(result) = Some(TimeoutMessage(variant, timeout_sec))
        /\ result.logs = logs

\* C4: when the line numbers received over the whole session are strictly
\* increasing, the logs the poller returns are the contents of all received
\* lines in line-number order.
C4_LogsAreConcatenation ==
    (pc = "returned" /\ outcome \in {"terminal", "timeout"}
     /\ StrictlyIncreasing(LineNumbersOf(received)))
        => result.logs = ContentsByLineNumber(Range(received))

C4_Witness ==
    /\ pc = "returned"
    /\ outcome = "terminal"
    /\ Len(requests) >= 2
    /\ Len(received) >= 2
    /\ StrictlyIncreasing(LineNumbersOf(received))
    /\ received[1].content # received[2].content

\* C5: a non-success status on a fetch aborts the poll call with an error:
\* no result is returned and no further fetch is issued.
C5_TransportErrorAborts ==
    /\ []((lastResp.kind # "none" /\ NonSuccess(lastResp.status)) =>
            (pc = "raised" /\ outcome = "transport_error" /\ result = NoResult))
    /\ [][(lastResp.kind # "none" /\ NonSuccess(lastResp.status)) =>
            (requests' = requests /\ result' = NoResult)]_vars

C5_Witness ==
    /\ lastResp.kind = "error"
    /\ Len(requests) >= 2
    /\ logs # <<>>
    /\ pc = "raised"

\* C6: a response with outputEnd true ends the poll with a terminal result
\* whose exitCode and error are those of the response's exitInfo, both null
\* when exitInfo is absent or null.
C6_TerminalExitInfo ==
    (lastResp.kind = "ok" /\ lastResp.outputEnd) =>
        /\ pc = "returned"
        /\ outcome = "terminal"
        /\ ResultExitCode(result) = ExitField(lastResp.exitInfo, "exitCode")
        /\ ResultError(result) = ExitField(lastResp.exitInfo, "error")
        /\ (~lastResp.exitInfo.present \/ lastResp.exitInfo.value = None) =>
               (ResultExitCode(result) = None /\ ResultError(result) = None)

C6_Witness ==
    /\ outcome = "terminal"
    /\ lastResp.exitInfo.present
    /\ lastResp.exitInfo.value # None
    /\ ResultExitCode(result) = Some(1)
    /\ ResultError(result) = Some("boom")

\* C7: every fetch request carries exactly the executionId, pod and
\* podNamespace of the submit response; only nextLineNumber varies.
C7_HandleUnchanged ==
    \A i \in 1..Len(requests) :
        /\ DOMAIN requests[i] = HandleKeys \cup {"nextLineNumber"}
        /\ requests[i].executionId = submitResp.body["executionId"]
        /\ requests[i].pod = submitResp.body["pod"]
        /\ requests[i].podNamespace = submitResp.body["podNamespace"]

C7_Witness ==
    /\ Len(requests) >= 2
    /\ requests[1].nextLineNumber # requests[2].nextLineNumber
    /\ requests[1].executionId = "e2"

\* C8: a submit response with a non-success status, or without one of
\* executionId, pod, podNamespace, makes the launch fail: no handle, no
\* result, no poll request.
C8_SubmissionErrorAborts ==
    (submitResp.kind = "submit"
     /\ (NonSuccess(submitResp.status) \/ ~(HandleKeys \subseteq DOMAIN submitResp.body)))
        => /\ pc = "raised"
           /\ outcome = "submit_error"
           /\ handle = NoHandle
           /\ result = NoResult
           /\ requests = <<>>

C8_Witness ==
    /\ submitResp.kind = "submit"
    /\ ~NonSuccess(submitResp.status)
    /\ DOMAIN submitResp.body = {"executionId", "pod"}
    /\ pc = "raised"

\* C9: every polling session eventually stops, and it stops only on
\* outputEnd, on the elapsed timeout budget or on a transport failure.
C9_SessionStops ==
    (pc \in PollPcs) ~> (pc \in FinalPcs /\ StoppedForAReason)

C9_Witness ==
    /\ outcome = "timeout"
    /\ Len(requests) >= 2
    /\ lastResp.kind = "ok"
    /\ ~lastResp.outputEnd

C11_CursorIsBatchMaxPlusOne ==
    [][(pc = "fetch" /\ Len(received') > Len(received))
          => next_line' = MaxOf(LineNumbersOf(NewLines)) + 1]_vars

\* C17: a session becomes terminal at most once and only on a response with
\* outputEnd true; after such a response it neither fetches nor sleeps, and
\* no result is terminal without such a response.
C17_TerminalOnlyOnOutputEnd ==
    /\ [](outcome = "terminal" => EndSeen)
    /\ [](EndSeen => (pc = "returned" /\ outcome = "terminal"))
    /\ [][EndSeen => (requests' = requests /\ pc' = "returned" /\ now' = now)]_vars
    /\ [][outcome = "terminal" => (outcome' = "terminal" /\ result' = result)]_vars

C17_Witness ==
    /\ outcome = "terminal"
    /\ EndSeen
    /\ Len(requests) >= 2
    /\ now > start

\* C19: the lines carried by the response with outputEnd true are appended
\* before the poll returns: the terminal result ends with them.
C19_FinalLinesReturned ==
    [][(pc = "fetch" /\ outcome' = "terminal")
          => /\ result'.logs = logs \o [i \in 1..Len(NewLines) |-> NewLines[i].content]
             /\ Len(result'.logs) = Len(received')]_vars

C19_Witness ==
    /\ outcome = "terminal"
    /\ Len(requests) = 1
    /\ Len(received) = 2
    /\ result.logs = <<received[1].content, received[2].content>>

\* C20: each call of a public operation issues exactly one submit request, and
\* every poll request of the call comes after the submit response;
\* trigger_dag_run with poll=False issues no poll request and returns the
\* handle fields only.
C20_HandleFieldsOnly ==
    /\ [](OneSubmit /\ UnpolledNeverPolls)
    /\ PollsFollowSubmitResponse
    /\ [](outcome = "unpolled"
            => ResultKeys(result) = {"execution_id", "pod", "pod_namespace"})

\* C20 (amended): as above, and trigger_dag_run with poll=False returns the
\* three handle fields and execute_error, without exit_code, exit_error, logs.
C20_OneSubmitThenPolls ==
    /\ [](OneSubmit /\ UnpolledNeverPolls)
    /\ PollsFollowSubmitResponse
    /\ [](outcome = "unpolled"
            => /\ op = "trigger_dag_run" /\ ~poll /\ pc = "returned"
               /\ ResultKeys(result) =
                      {"execution_id", "pod", "pod_namespace", "execute_error"}
               /\ result.execution_id = handle.execution_id
               /\ result.pod = handle.pod
               /\ result.pod_namespace = handle.pod_namespace)

C20_Witness ==
    /\ outcome = "unpolled"
    /\ result.execute_error # ""
    /\ Len(submits) = 1
    /\ requests = <<>>

\* C12: most-recent selection over a non-empty collection of run records
\* returns a record whose recency key is the maximum under string comparison,
\* and among records sharing that key the first in the original order.
C12_MostRecentIsFirstMaximum ==
    (/\ xop = "get_latest_dag_run_status"
     /\ xpc # "start"
     /\ HasRecords(out.logs)
     /\ Records(out.logs) # <<>>)
    => LET runs == Records(out.logs)
           top == {i \in 1..Len(runs) :
                     \A j \in 1..Len(runs) : ~StrLess(RecencyKey(runs[i]), RecencyKey(runs[j]))}
       IN /\ xpc = "returned"
          /\ ret = LatestSummary(runs[Least(top)])

C12_Witness ==
    /\ xop = "get_latest_dag_run_status"
    /\ xpc = "returned"
    /\ HasRecords(out.logs)
    /\ Len(Records(out.logs)) = 2
    /\ RecencyKey(Records(out.logs)[1]) = RecencyKey(Records(out.logs)[2])
    /\ ret = LatestSummary(Records(out.logs)[1])
    /\ ret # LatestSummary(Records(out.logs)[2])

\* C13: selecting from an empty collection, or by a run id that no record
\* carries, is a normal return of the not-found value, never an exception.
C13_NotFoundIsNormalReturn ==
    /\ (/\ xop = "get_latest_dag_run_status"
        /\ xpc # "start"
        /\ (~PayloadOf(out.logs).ok \/ PayloadOf(out.logs).val.items = <<>>))
       => (xpc = "returned" /\ ret = PyNone)
    /\ (xop = "get_dag_run_state_by_run_id" /\ xpc # "start")
       => xpc = "returned"
    /\ (/\ xop = "get_dag_run_state_by_run_id"
        /\ xpc # "start"
        /\ out.exit_code = Some(0)
        /\ HasRecords(out.logs)
        /\ MatchesOf(Records(out.logs), run_id) = {})
       => (ret.kind = "scan" /\ ret.state = None)
    /\ (/\ xop = "get_dag_run_state_by_run_id"
        /\ xpc # "start"
        /\ \A i \in 1..Len(out.logs) : ~RunIdIn(run_id, out.logs[i]))
       => (ret.kind = "scan" /\ ret.state = None)

C13_Witness ==
    /\ xop = "get_dag_run_state_by_run_id"
    /\ xpc = "returned"
    /\ out.exit_code = Some(0)
    /\ HasRecords(out.logs)
    /\ Records(out.logs) # <<>>
    /\ run_id = "r1"
    /\ MatchesOf(Records(out.logs), run_id) = {}
    /\ ret.state = None

\* C14: scalar extraction returns the state token of the last log line whose
\* trimmed, lower-cased content is a RunState; no matching line gives the
\* no-match value.
C14_LastMatchingLineWins ==
    (xop = "get_dag_run_state_by_logical_date" /\ xpc # "start")
    => LET matching == {i \in 1..Len(out.logs) : StateTokenOf(out.logs[i]) # None}
       IN /\ xpc = "returned"
          /\ ret.state = IF matching = {} THEN None
                         ELSE StateTokenOf(out.logs[Greatest(matching)])

C14_Witness ==
    /\ xop = "get_dag_run_state_by_logical_date"
    /\ xpc = "returned"
    /\ Len(out.logs) = 2
    /\ StateTokenOf(out.logs[1]) # None
    /\ StateTokenOf(out.logs[2]) # None
    /\ StateTokenOf(out.logs[1]) # StateTokenOf(out.logs[2])
    /\ ret.state = StateTokenOf(out.logs[2])

\* C15: structured-payload extraction never raises: with no "[", no "]", the
\* last "]" not after the first "[", or text between them that is not valid
\* JSON, it returns an empty result as a normal value.
C15_ExtractionNeverRaises ==
    /\ (xop = "list_dag_runs" /\ xpc # "start")
       => /\ xpc = "returned"
          /\ ret.kind = "runs"
          /\ ~PayloadOf(out.logs).ok => ret.runs = <<>>
    /\ (xop = "get_dag_run_state_by_run_id" /\ xpc # "start")
       => /\ xpc = "returned"
          /\ ~PayloadOf(out.logs).ok => ret.kind = "scan"

C15_Witness ==
    /\ xop = "list_dag_runs"
    /\ xpc = "returned"
    /\ Find(Join(out.logs), LB) # -1
    /\ RFind(Join(out.logs), RB) > Find(Join(out.logs), LB)
    /\ ~PayloadOf(out.logs).ok
    /\ ret = RunsResult(<<>>)

\* C18: get_dag_run_state_by_run_id returns the state of the first record, in
\* payload order, whose run_id equals the requested one by case-sensitive
\* equality, for every parsed payload of records with such a record.
C18_FirstExactMatch ==
    (/\ xop = "get_dag_run_state_by_run_id"
     /\ xpc # "start"
     /\ out.exit_code = Some(0)
     /\ HasRecords(out.logs)
     /\ MatchesOf(Records(out.logs), run_id) # {})
    => LET r == Records(out.logs)[Least(MatchesOf(Records(out.logs), run_id))]
       IN /\ xpc = "returned"
          /\ ret.kind = "run"
          /\ ret.state = Some(StateOf(r))
          /\ ret.logical_date = LogicalDateOf(r)

C18_Witness ==
    /\ xop = "get_dag_run_state_by_run_id"
    /\ xpc = "returned"
    /\ out.exit_code = Some(0)
    /\ HasRecords(out.logs)
    /\ MatchesOf(Records(out.logs), run_id) = {1, 2}
    /\ StateOf(Records(out.logs)[1]) # StateOf(Records(out.logs)[2])
    /\ ret.state = Some(StateOf(Records(out.logs)[1]))

\* C16: with sessions for different handles interleaved, a session's cursor
\* and log buffer are changed only by its own responses, and its result is
\* the one it gives when it runs alone on the same responses.
C16_SessionsAreIndependent ==
    /\ [](\A i \in Sessions :
            spc[i] # "idle"
            => /\ snext_line[i] = AloneState(shistory[i]).next_line
               /\ slogs[i] = AloneState(shistory[i]).logs
               /\ spc[i] = "returned" => sresult[i] = AloneResult(i, shistory[i])
               /\ \A n \in 1..Len(shistory[i]) :
                     shistory[i][n].k = "req"
                     => shistory[i][n].body =
                           PollBody(SessionHandle(i),
                                    AloneState(SubSeq(shistory[i], 1, n - 1)).next_line))
    /\ [][\A i \in Sessions :
            spc'[i] = spc[i]
            => /\ snext_line'[i] = snext_line[i]
               /\ slogs'[i] = slogs[i]
               /\ sresult'[i] = sresult[i]]_vars

C16_Witness ==
    /\ spc[1] = "returned"
    /\ spc[2] = "fetch"
    /\ sstart[2] < cnow
    /\ Len(shistory[1]) >= 4
    /\ slogs[1] # <<>>
    /\ slogs[2] # <<>>
    /\ slogs[1] # slogs[2]
    /\ snext_line[1] # snext_line[2]

\* C21: the JSON payload is consulted only with exit code 0; after a timeout
\* or a non-zero exit code the state comes from the forward text-table scan
\* alone; once the payload has parsed the text-table fallback is never used,
\* so a parsed payload without the run id yields no state.
C21_ParsedNeverFallsBack ==
    /\ ScanAloneWithoutExitZero
    /\ (ByRunIdDone /\ out.exit_code = Some(0) /\ PayloadOf(out.logs).ok)
       => IF MatchBeforeNonRecord(out.logs, run_id)
          THEN ret.kind = "run"
          ELSE ret.kind = "scan" /\ ret.state = None

\* C21 (amended): as above, except that the fallback is not used once the
\* payload has parsed and its scan has not failed: when an element that is not
\* a record comes before any match, the state is the one of the text-table
\* scan, as it is when the payload does not parse.
C21_JsonOnlyOnExitZero ==
    /\ ScanAloneWithoutExitZero
    /\ (ByRunIdDone /\ out.exit_code = Some(0) /\ HasRecords(out.logs))
       => IF MatchesOf(Records(out.logs), run_id) # {}
          THEN ret.kind = "run"
          ELSE ret.kind = "scan" /\ ret.state = None
    /\ (ByRunIdDone /\ out.exit_code = Some(0) /\ PayloadOf(out.logs).ok
          /\ ~HasRecords(out.logs))
       => IF MatchBeforeNonRecord(out.logs, run_id)
          THEN ret.kind = "run"
          ELSE ret.kind = "scan" /\ ret.state = TableStateOf(out.logs, run_id)
    /\ (ByRunIdDone /\ out.exit_code = Some(0) /\ ~PayloadOf(out.logs).ok)
       => (ret.kind = "scan" /\ ret.state = TableStateOf(out.logs, run_id))

C21_Witness ==
    /\ ByRunIdDone
    /\ out.exit_code = Some(0)
    /\ HasRecords(out.logs)
    /\ Records(out.logs) # <<>>
    /\ MatchesOf(Records(out.logs), run_id) = {}
    /\ TableStateOf(out.logs, run_id) # None
    /\ ret.state = None

====
